---- MODULE Spec2Model ----
(***************************************************************************)
(* Model of two back-end entry points of bracket-lib / rltk:               *)
(*                                                                         *)
(*   - the amethyst bridge (src/src/hal/amethyst_be/mod.rs):               *)
(*     RltkGemBridge::on_start, RltkGemBridge::update and the tile lookups *)
(*     SimpleConsoleTile::sprite / tint;                                   *)
(*   - the native initialisation (bracket-terminal/src/hal/native/init.rs):*)
(*     init_raw.                                                           *)
(*                                                                         *)
(* Options are sequences of length 0 (None) or 1 (Some).  Rust vectors are *)
(* 0-based; the sequences here are 1-based, so font_index i of the model   *)
(* is fonts[i-1] of the code.  Tile storage indices are kept 0-based and   *)
(* one is added only where the sequence is read.                           *)
(***************************************************************************)
EXTENDS Integers, Sequences, FiniteSets, TLC

VARIABLES
    \* ---- amethyst bridge: RltkGemBridge { rltk, state, key_delay } + World
    pc,             \* position of the host engine's state machine
    fonts,          \* rltk.fonts: each [ss : Option<Handle<SpriteSheet>>]
    consoles,       \* rltk.consoles: Vec<DisplayConsole>
    frame_time_ms,  \* rltk.frame_time_ms
    key,            \* rltk.key : Option<VirtualKeyCode>
    mouse_pos,      \* rltk.mouse_pos : (i32, i32)
    left_click,     \* rltk.left_click
    shift,          \* rltk.shift
    control,        \* rltk.control
    alt,            \* rltk.alt
    quitting,       \* rltk.quitting
    key_delay,      \* RltkGemBridge.key_delay
    resource,       \* World's SimpleConsoleResource slot : Option<{size, tiles}>
    entities,       \* World's entities created by the bridge
    polled,         \* whether the current frame took the input-poll branch
    \* ---- tile lookups (SimpleConsoleTile / SimpleConsoleBackgroundTile)
    tile_res,       \* the SimpleConsoleResource fetched by a lookup
    tile_pt,        \* the Point3<u32> the host engine asked for
    tile_out,       \* outcome of the last lookup
    \* ---- native init_raw
    overflow_checks,\* build profile: TRUE = debug (overflow panics), FALSE = release (wraps)
    backend,        \* BACKEND (process-wide)
    shaders,        \* BACKEND_INTERNAL.shaders
    last            \* what the last init_raw call did and returned

bridgeVars == <<pc, fonts, consoles, frame_time_ms, key, mouse_pos, left_click,
                shift, control, alt, quitting, key_delay, resource, entities,
                polled>>
tileVars == <<tile_res, tile_pt, tile_out>>
initVars == <<overflow_checks, backend, shaders, last>>
vars == <<bridgeVars, tileVars, initVars>>

None == <<>>
Some(x) == <<x>>

\* ------------------------------------------------------------------------
\* Bounds of the model
\* ------------------------------------------------------------------------
MaxConsoles == 2
MaxDeltaFrames == 3

\* Frame durations the host engine's Time resource reports, in microseconds:
\* a sub-millisecond frame and one to MaxDeltaFrames display intervals of 20 ms.
FrameDeltasMicros == {500} \cup {20000 * k : k \in 1..MaxDeltaFrames}

Keys == {"A", "B"}
\* InputHandler::keys_that_are_down(): the keys held, in iteration order.
KeysDown == {<<>>} \cup {<<k>> : k \in Keys}
                   \cup {<<j, k>> : <<j, k>> \in {p \in Keys \X Keys : p[1] # p[2]}}
\* InputHandler::mouse_position(): Option<(f32, f32)>, in half pixels here
\* (-1 is -0.5 px, 3 is 1.5 px) so that the cast to i32 has something to cut.
MousePositions == {None, Some(<<-1, 3>>), Some(<<3, 2>>)}

BlankTile == [glyph |-> 0, fg |-> "white", bg |-> "black"]
TileValues == {BlankTile, [glyph |-> 64, fg |-> "red", bg |-> "blue"]}
DenseSizes == {<<1, 1>>, <<2, 1>>}

\* ------------------------------------------------------------------------
\* Each entry point is checked in a specification of its own; the variables
\* of the other entry points rest at these values there.
\* ------------------------------------------------------------------------
\* The record of one init_raw call: its outcome and what it did to the
\* window on the way; NoCall before any call.
NoCall ==
    [result |-> "none", fullscreen |-> FALSE, centered |-> FALSE,
     window_created |-> FALSE, fullscreen_set |-> FALSE,
     monitor |-> None, win_size |-> None,
     position_sets |-> 0, position |-> <<0, 0>>, icon_set |-> FALSE]

\* BACKEND before init_raw has run.
EmptyBackend ==
    [gl |-> None, quad_vao |-> None, context_wrapper |-> None,
     backing_buffer |-> None, frame_sleep_time |-> None,
     resize_scaling |-> FALSE]

NativeIdle(checks) ==
    /\ overflow_checks = checks
    /\ backend = EmptyBackend
    /\ shaders = <<>>
    /\ last = NoCall

TileIdle ==
    /\ tile_res = [size |-> <<0, 0>>, tiles |-> <<>>]
    /\ tile_pt = <<0, 0>>
    /\ tile_out = [kind |-> "idle", idx |-> 0, value |-> 0]

BridgeIdle ==
    /\ pc = "idle"
    /\ fonts = <<>>
    /\ consoles = <<>>
    /\ frame_time_ms = 0
    /\ key = None
    /\ mouse_pos = <<0, 0>>
    /\ left_click = FALSE
    /\ shift = FALSE
    /\ control = FALSE
    /\ alt = FALSE
    /\ quitting = FALSE
    /\ key_delay = 0
    /\ resource = None
    /\ entities = <<>>
    /\ polled = FALSE

\* ------------------------------------------------------------------------
\* Session contents (crate::Rltk, not part of the back-end file)
\* ------------------------------------------------------------------------
RECURSIVE Repeat(_, _)
Repeat(x, n) == IF n = 0 THEN <<>> ELSE <<x>> \o Repeat(x, n - 1)

NewSimpleConsole(size, fi) ==
    [kind |-> "SimpleConsole", size |-> size,
     tiles |-> Repeat(BlankTile, size[1] * size[2]), font_index |-> fi]

NewSparseConsole(size, fi) ==
    [kind |-> "SparseConsole", size |-> size, tiles |-> <<>>, font_index |-> fi]

NewConsoles(nfonts) ==
    {NewSimpleConsole(s, fi) : s \in DenseSizes, fi \in 1..nfonts}
        \cup {NewSparseConsole(<<1, 1>>, fi) : fi \in 1..nfonts}

\* impl Console for SimpleConsole: set(x, y, ..) writes tiles[y*width + x],
\* and does nothing outside the grid.
ConsoleSet(c, x, y, t) ==
    IF c.kind = "SimpleConsole" /\ x >= 0 /\ x < c.size[1] /\ y >= 0 /\ y < c.size[2]
    THEN [c EXCEPT !.tiles[y * c.size[1] + x + 1] = t]
    ELSE c

IsSimple(c) == c.kind = "SimpleConsole"

RECURSIVE NumDense(_)
NumDense(cs) ==
    IF cs = <<>> THEN 0
    ELSE (IF IsSimple(Head(cs)) THEN 1 ELSE 0) + NumDense(Tail(cs))

\* ------------------------------------------------------------------------
\* RltkGemBridge::on_start
\* ------------------------------------------------------------------------
\* make_camera: one camera entity is created.
MakeCamera(ents) == Append(ents, [kind |-> "Camera", dims |-> <<0, 0>>])

\* initialize_fonts: every font of the session gets its sprite-sheet handle.
InitializeFonts(fs) == [i \in 1..Len(fs) |-> [ss |-> Some(i)]]

\* The resource the bridge inserts for a dense console: its size and a clone
\* of its tiles.
SimpleConsoleResource(c) == [size |-> c.size, tiles |-> c.tiles]

AssertSingleConsole_Missing(count) == TRUE

\* assert!(count == 0, "Amethyst back-end only supports one simple console.")
AssertSingleConsole(count) == count = 0

\* initialize_console_objects: the loop over rltk.consoles.  st carries the
\* loop's count, the World's resource slot and entities, and whether the
\* assertion has panicked (which ends the loop and the program).
RECURSIVE InitializeConsoleObjects(_, _, _)
InitializeConsoleObjects(cs, fs, st) ==
    IF cs = <<>> THEN st
    ELSE LET c == Head(cs) IN
         IF IsSimple(c) /\ fs[c.font_index].ss # None
         THEN IF ~AssertSingleConsole(st.count)
              THEN [st EXCEPT !.panicked = TRUE]
              ELSE InitializeConsoleObjects(Tail(cs), fs,
                       [count    |-> st.count + 1,
                        resource |-> Some(SimpleConsoleResource(c)),
                        entities |-> Append(st.entities,
                                            [kind |-> "TileMap", dims |-> c.size]),
                        panicked |-> FALSE])
         ELSE InitializeConsoleObjects(Tail(cs), fs, st)

OnStart ==
    /\ pc = "start"
    /\ LET fs == InitializeFonts(fonts)
           st == InitializeConsoleObjects(consoles, fs,
                     [count |-> 0, resource |-> resource,
                      entities |-> MakeCamera(entities), panicked |-> FALSE])
       IN /\ fonts' = fs
          /\ resource' = st.resource
          /\ entities' = st.entities
          /\ pc' = IF st.panicked THEN "panic" ELSE "frame"
    /\ UNCHANGED <<consoles, frame_time_ms, key, mouse_pos, left_click, shift,
                   control, alt, quitting, key_delay, polled>>
    /\ UNCHANGED <<tileVars, initVars>>

\* ------------------------------------------------------------------------
\* RltkGemBridge::update
\* ------------------------------------------------------------------------
KeyDelayThreshold == 50

\* timer.delta_time().as_millis() as f32: whole milliseconds of the Duration.
AsMillis(micros) == micros \div 1000

ShouldPoll_Always(kd) == TRUE

\* if self.key_delay > 50.0
ShouldPoll(kd) == kd > KeyDelayThreshold

\* for key in inputs.keys_that_are_down() { self.rltk.key = Some(key); }
LastKeyDown(keys) == IF keys = <<>> THEN None ELSE Some(keys[Len(keys)])

\* pos.0 as i32 of an f32 given in half pixels: truncation toward zero.
AsI32(half) == IF half >= 0 THEN half \div 2 ELSE -((-half) \div 2)

\* Frame times and input handling, up to the call of the tick callback.
UpdateInput(delta, keys, mouse, button) ==
    /\ pc = "frame"
    /\ LET ft == AsMillis(delta)
           kd == key_delay + ft
       IN /\ frame_time_ms' = ft
          /\ shift' = FALSE
          /\ control' = FALSE
          /\ alt' = FALSE
          /\ IF ShouldPoll(kd)
             THEN /\ key_delay' = 0
                  /\ key' = LastKeyDown(keys)
                  /\ mouse_pos' = IF mouse # None
                                  THEN <<AsI32(mouse[1][1]), AsI32(mouse[1][2])>>
                                  ELSE mouse_pos
                  /\ left_click' = button
                  /\ polled' = TRUE
             ELSE /\ key_delay' = kd
                  /\ key' = None
                  /\ mouse_pos' = mouse_pos
                  /\ left_click' = FALSE
                  /\ polled' = FALSE
    /\ pc' = "tick"
    /\ UNCHANGED <<fonts, consoles, quitting, resource, entities>>
    /\ UNCHANGED <<tileVars, initVars>>

\* What one call of the application's tick may do to the session.
TickEdits(cs) ==
    {[op |-> "none", i |-> 0, x |-> 0, y |-> 0, t |-> BlankTile]}
        \cup UNION {{[op |-> "set", i |-> i, x |-> x, y |-> y, t |-> t] :
                        x \in 0..(cs[i].size[1] - 1),
                        y \in 0..(cs[i].size[2] - 1), t \in TileValues} :
                    i \in {j \in 1..Len(cs) : IsSimple(cs[j])}}
        \cup {[op |-> "register_simple", i |-> 0, x |-> 0, y |-> 0, t |-> BlankTile]}
        \cup {[op |-> "register_sparse", i |-> 0, x |-> 0, y |-> 0, t |-> BlankTile]}

\* Rltk::register_console pushes onto rltk.consoles.
ApplyEdit(cs, e) ==
    CASE e.op = "none" -> cs
      [] e.op = "set"  -> [cs EXCEPT ![e.i] = ConsoleSet(cs[e.i], e.x, e.y, e.t)]
      [] e.op = "register_simple" ->
            IF Len(cs) < MaxConsoles
            THEN Append(cs, NewSimpleConsole(<<2, 1>>, 1)) ELSE cs
      [] e.op = "register_sparse" ->
            IF Len(cs) < MaxConsoles
            THEN Append(cs, NewSparseConsole(<<1, 1>>, 1)) ELSE cs

UpdateSimpleConsoles_Stale(cs, res) == res

\* "Update the simple consoles": every dense console is inserted into the
\* same resource slot in turn, so the last one stays.
RECURSIVE UpdateSimpleConsoles(_, _)
UpdateSimpleConsoles(cs, res) ==
    IF cs = <<>> THEN res
    ELSE UpdateSimpleConsoles(Tail(cs),
             IF IsSimple(Head(cs)) THEN Some(SimpleConsoleResource(Head(cs)))
             ELSE res)

QuitCheck_Ignored(q) == FALSE

\* if self.rltk.quitting { return Trans::Quit; }
QuitCheck(q) == q

\* The tick callback, the quit check and the publication of the consoles.
UpdateTick(e, quit) ==
    /\ pc = "tick"
    /\ LET cs == ApplyEdit(consoles, e)
           q  == quitting \/ quit
       IN /\ consoles' = cs
          /\ quitting' = q
          /\ IF QuitCheck(q)
             THEN /\ pc' = "quit"
                  /\ resource' = resource
             ELSE /\ pc' = "frame"
                  /\ resource' = UpdateSimpleConsoles(cs, resource)
    /\ UNCHANGED <<fonts, frame_time_ms, key, mouse_pos, left_click, shift,
                   control, alt, key_delay, entities, polled>>
    /\ UNCHANGED <<tileVars, initVars>>

\* ------------------------------------------------------------------------
\* The bridge's specification: main_loop builds RltkGemBridge{rltk, state,
\* key_delay : 0.0} from a session made by init_raw and the application,
\* and the host engine calls on_start once and update once per frame until
\* update returns Trans::Quit.
\* ------------------------------------------------------------------------
RECURSIVE SeqsUpTo(_, _)
SeqsUpTo(S, n) ==
    IF n = 0 THEN {<<>>}
    ELSE LET shorter == SeqsUpTo(S, n - 1)
         IN shorter \cup {Append(q, x) : q \in shorter, x \in S}

BridgeInit ==
    /\ pc = "start"
    /\ fonts = <<[ss |-> None]>>
    /\ consoles \in SeqsUpTo(NewConsoles(Len(fonts)), MaxConsoles)
    /\ frame_time_ms = 0
    /\ key = None
    /\ mouse_pos = <<0, 0>>
    /\ left_click = FALSE
    /\ shift = FALSE
    /\ control = FALSE
    /\ alt = FALSE
    /\ quitting = FALSE
    /\ key_delay = 0
    /\ resource = None
    /\ entities = <<>>
    /\ polled = FALSE

Init == BridgeInit /\ TileIdle /\ NativeIdle(FALSE)

Next ==
    \/ OnStart
    \/ \E d \in FrameDeltasMicros, ks \in KeysDown, m \in MousePositions, b \in BOOLEAN :
           UpdateInput(d, ks, m, b)
    \/ \E e \in TickEdits(consoles), q \in BOOLEAN : UpdateTick(e, q)

Spec == Init /\ [][Next]_vars

\* ------------------------------------------------------------------------
\* Tile lookups: impl Tile for SimpleConsoleTile / SimpleConsoleBackgroundTile
\* ------------------------------------------------------------------------
MaxGridW == 3
MaxGridH == 3
BackgroundGlyph == 254

TileIndex_NoFlip(size, pt) == (pt[2] * size[1]) + pt[1]

\* let y = (tiles.size.1-1) - pt.y; let idx = (y * tiles.size.0) + pt.x;
\* as a mathematical integer.  The code computes it in u32; every value of
\* the model is far below 2^31, so the u32 result is this integer when no
\* subtraction underflows, and this integer plus a multiple of 2^32 (at
\* least 2^32 minus a small number) when one wraps in a release build.
TileIndex(size, pt) == (((size[2] - 1) - pt[2]) * size[1]) + pt[1]

\* Whether one of the two u32 subtractions of the index computation
\* underflows: size.1 - 1 for an empty grid, or (size.1 - 1) - pt.y.
IndexUnderflows(size, pt) == size[2] < 1 \/ pt[2] > size[2] - 1

\* The three lookups share the index computation and the Vec index
\* tiles.tiles[idx as usize]; field is the Tile member each one reads.
\* A debug build panics on the underflow; a release build wraps, and the
\* Vec index panics unless the wrapped index is within the Vec.
TileLookup(res, pt, field, checks) ==
    LET idx == TileIndex(res.size, pt) IN
    IF checks /\ IndexUnderflows(res.size, pt)
    THEN [kind |-> "panic_overflow", idx |-> 0, value |-> 0]
    ELSE IF idx < 0 \/ idx >= Len(res.tiles)
    THEN [kind |-> "panic_index", idx |-> 0, value |-> 0]
    ELSE [kind |-> field, idx |-> idx, value |-> res.tiles[idx + 1][field]]

\* SimpleConsoleTile::sprite
Sprite(pt) ==
    /\ tile_pt' = pt
    /\ tile_out' = TileLookup(tile_res, pt, "glyph", overflow_checks)
    /\ UNCHANGED <<tile_res, overflow_checks>>
    /\ UNCHANGED <<bridgeVars, backend, shaders, last>>

\* SimpleConsoleTile::tint
Tint(pt) ==
    /\ tile_pt' = pt
    /\ tile_out' = TileLookup(tile_res, pt, "fg", overflow_checks)
    /\ UNCHANGED <<tile_res, overflow_checks>>
    /\ UNCHANGED <<bridgeVars, backend, shaders, last>>

\* SimpleConsoleBackgroundTile::tint
BackgroundTint(pt) ==
    /\ tile_pt' = pt
    /\ tile_out' = TileLookup(tile_res, pt, "bg", overflow_checks)
    /\ UNCHANGED <<tile_res, overflow_checks>>
    /\ UNCHANGED <<bridgeVars, backend, shaders, last>>

\* SimpleConsoleBackgroundTile::sprite
BackgroundSprite(pt) ==
    /\ tile_pt' = pt
    /\ tile_out' = [kind |-> "bg_glyph", idx |-> 0, value |-> BackgroundGlyph]
    /\ UNCHANGED <<tile_res, overflow_checks>>
    /\ UNCHANGED <<bridgeVars, backend, shaders, last>>

\* A published grid: size (w, h) and w*h tiles, stored row by row.  Cell i
\* carries i in each of its members, so a lookup's value names the cell read.
LabelledGrid(w, h) ==
    [size |-> <<w, h>>,
     tiles |-> [i \in 1..(w * h) |-> [glyph |-> i - 1, fg |-> 100 + i - 1,
                                      bg |-> 200 + i - 1]]]

TileInit ==
    /\ BridgeIdle
    /\ \E checks \in BOOLEAN : NativeIdle(checks)
    /\ \E w \in 0..MaxGridW, h \in 0..MaxGridH : tile_res = LabelledGrid(w, h)
    /\ tile_pt = <<0, 0>>
    /\ tile_out = [kind |-> "idle", idx |-> 0, value |-> 0]

\* The host engine's tile renderer asks for any point of its tile map, whose
\* dimensions are those the first dense console had at on_start and need not
\* be those of the grid published now.
TilePoints == (0..MaxGridW) \X (0..MaxGridH)

TileNext ==
    \/ \E pt \in TilePoints : Sprite(pt)
    \/ \E pt \in TilePoints : Tint(pt)
    \/ \E pt \in TilePoints : BackgroundTint(pt)
    \/ \E pt \in TilePoints : BackgroundSprite(pt)

TileSpec == TileInit /\ [][TileNext]_vars

InGrid(size, pt) == pt[1] < size[1] /\ pt[2] < size[2]

\* C7: a lookup at a point of the published grid reads index
\* (h - 1 - y) * w + x without any underflow or panic; the index is within
\* the w*h stored cells, differs from the index of every other point of the
\* grid, and render row 0 reads the last stored row.
C7_TileIndexBijection ==
    (tile_out.kind \in {"glyph", "fg", "bg"} \cup {"panic_overflow", "panic_index"}
        /\ InGrid(tile_res.size, tile_pt)) =>
    LET w == tile_res.size[1]
        h == tile_res.size[2]
    IN /\ tile_out.kind \in {"glyph", "fg", "bg"}
       /\ tile_out.idx = (h - 1 - tile_pt[2]) * w + tile_pt[1]
       /\ tile_out.idx >= 0 /\ tile_out.idx < w * h
       /\ tile_out.value = tile_res.tiles[tile_out.idx + 1][tile_out.kind]
       /\ (tile_pt[2] = 0 => tile_out.idx \div w = h - 1)
       /\ \A q \in TilePoints :
              (InGrid(tile_res.size, q) /\ q # tile_pt) =>
                  TileLookup(tile_res, q, tile_out.kind, overflow_checks).idx
                      # tile_out.idx
       /\ {TileLookup(tile_res, q, tile_out.kind, overflow_checks).idx :
               q \in {r \in TilePoints : InGrid(tile_res.size, r)}} = 0..(w * h - 1)

C7_Witness ==
    /\ tile_out.kind = "fg"
    /\ tile_res.size = <<2, 3>>
    /\ tile_pt = <<1, 0>>
    /\ tile_out.idx = 5
    /\ overflow_checks

\* ------------------------------------------------------------------------
\* Native back-end: init_raw
\* ------------------------------------------------------------------------
MaxPixels == 1

PixelSizes == (0..MaxPixels) \X (0..MaxPixels)

\* InitHints, as far as init_raw's control flow and writes depend on it.
InitHints ==
    {[fullscreen |-> f, centered |-> c, icon |-> o[1],
      frame_sleep_time |-> o[2], resize_scaling |-> o[3]] :
        f \in BOOLEAN, c \in BOOLEAN,
        o \in {<<"none", None, FALSE>>, <<"valid", Some(30), TRUE>>,
               <<"invalid", None, TRUE>>}}

\* What the platform answers during one call: whether build_windowed and
\* make_current succeed, how many monitors available_monitors() yields, the
\* window's current_monitor() (its size, if any) and outer_size(), and
\* whether Framebuffer::build_fbo succeeds.  Only the answers a call with
\* hints h can ask for are varied.
Platforms(h) ==
    {[build_ok |-> ok[1], make_current_ok |-> ok[2], fbo_ok |-> ok[3],
      monitors |-> n, current_monitor |-> cm, outer_size |-> os] :
        ok \in {<<TRUE, TRUE, TRUE>>, <<FALSE, TRUE, TRUE>>,
                <<TRUE, FALSE, TRUE>>, <<TRUE, TRUE, FALSE>>},
        n  \in IF h.fullscreen THEN 0..1 ELSE {1},
        cm \in IF ~h.fullscreen /\ h.centered
               THEN {None} \cup {Some(sz) : sz \in PixelSizes}
               ELSE {None},
        os \in IF ~h.fullscreen /\ h.centered THEN PixelSizes ELSE {<<0, 0>>}}

\* (a - b) / 2 in u32 when the subtraction wraps (a < b): the difference is
\* 2^32 - (b - a), and half of it, rounded down, is 2^31 - ceil((b - a) / 2),
\* written from 2^31 - 1 so that no intermediate value exceeds 2^31 - 1.
WrappedHalf(a, b) == (2147483647 - ((b - a + 1) \div 2)) + 1

\* margin / 2 for margin = monitor - window, one axis.
HalfMargin(monitor, window) ==
    IF monitor >= window THEN (monitor - window) \div 2
    ELSE WrappedHalf(monitor, window)

\* "center on screen": the position handed to set_outer_position, or the
\* overflow panic of a build with overflow checks.
CenterOnScreen(monitor_size, win_size, checks) ==
    IF checks /\ (monitor_size[1] < win_size[1] \/ monitor_size[2] < win_size[2])
    THEN [panic |-> TRUE, position |-> <<0, 0>>]
    ELSE [panic |-> FALSE,
          position |-> <<HalfMargin(monitor_size[1], win_size[1]),
                         HalfMargin(monitor_size[2], win_size[2])>>]

\* The fixed table of shader sources, in the order init_raw pushes them.
ShaderTable ==
    <<"CONSOLE_WITH_BG", "CONSOLE_NO_BG", "BACKING", "SCANLINES",
      "FANCY_CONSOLE", "SPRITE_CONSOLE">>

\* Shader::new(&gl, <name>_VS, <name>_FS) for each entry of the table.
LoadShaders(gl) ==
    [i \in 1..Len(ShaderTable) |->
        [vs |-> ShaderTable[i], fs |-> ShaderTable[i], gl |-> gl]]

\* crate::hal::convert_fps_to_wait: the frame-pacing wait derived from the
\* hint; kept symbolic.
ConvertFpsToWait(fst) == IF fst = None THEN None ELSE Some(<<"wait_for_fps", fst[1]>>)

\* The path init_raw takes up to its return (or panic), without the writes
\* to the process-wide state: the early returns in their order.
InitPath(h, p, checks) ==
    LET c0 == [NoCall EXCEPT !.fullscreen = h.fullscreen, !.centered = h.centered] IN
    IF ~p.build_ok THEN [c0 EXCEPT !.result = "Err_context"]
    ELSE LET c1 == [c0 EXCEPT !.window_created = TRUE] IN
    IF ~p.make_current_ok THEN [c1 EXCEPT !.result = "panic_make_current"]
    ELSE IF h.fullscreen /\ p.monitors = 0 THEN [c1 EXCEPT !.result = "Err_NoMonitor"]
    ELSE LET centering == ~h.fullscreen /\ h.centered
             c2 == IF h.fullscreen THEN [c1 EXCEPT !.fullscreen_set = TRUE]
                   ELSE IF centering
                   THEN [c1 EXCEPT !.win_size = Some(p.outer_size),
                                   !.monitor = p.current_monitor]
                   ELSE c1
             co == IF centering /\ p.current_monitor # None
                   THEN CenterOnScreen(p.current_monitor[1], p.outer_size, checks)
                   ELSE [panic |-> FALSE, position |-> <<0, 0>>]
         IN
    IF co.panic THEN [c2 EXCEPT !.result = "panic_overflow"]
    ELSE LET c3 == IF centering /\ p.current_monitor # None
                   THEN [c2 EXCEPT !.position_sets = 1, !.position = co.position]
                   ELSE c2
             c4 == [c3 EXCEPT !.icon_set = (h.icon = "valid")]
         IN
    IF ~p.fbo_ok THEN [c4 EXCEPT !.result = "Err_fbo"]
    ELSE [c4 EXCEPT !.result = "Ok"]

ReachesBackendWrites_BeforeFbo(result) == result \in {"Ok", "Err_fbo"}

\* "let mut be = BACKEND.lock(); ..." is reached only when no earlier step
\* has returned or panicked.
ReachesBackendWrites(result) == result = "Ok"

InitRaw(h, p) ==
    /\ LET c  == InitPath(h, p, overflow_checks)
           gl == "glow::Context"
       IN /\ last' = c
          /\ IF ReachesBackendWrites(c.result)
             THEN /\ backend' = [gl |-> Some(gl), quad_vao |-> Some("quad_vao"),
                                 context_wrapper |-> Some("WrappedContext"),
                                 backing_buffer |-> Some("Framebuffer"),
                                 frame_sleep_time |-> ConvertFpsToWait(h.frame_sleep_time),
                                 resize_scaling |-> h.resize_scaling]
                  /\ shaders' = LoadShaders(gl)
             ELSE /\ backend' = backend
                  /\ shaders' = shaders
    /\ UNCHANGED overflow_checks
    /\ UNCHANGED <<bridgeVars, tileVars>>

NativeInit ==
    /\ BridgeIdle
    /\ TileIdle
    /\ \E checks \in BOOLEAN : NativeIdle(checks)

NativeNext == \E h \in InitHints : \E p \in Platforms(h) : InitRaw(h, p)

InitSpec == NativeInit /\ [][NativeNext]_vars

\* The host engine keeps calling update while the state machine runs.
FairSpec == Init /\ [][Next]_vars /\ WF_vars(Next)

\* ------------------------------------------------------------------------
\* Properties of the bridge
\* ------------------------------------------------------------------------
DenseConsoles(cs) == SelectSeq(cs, IsSimple)

NumTileMaps(ents) == Cardinality({i \in 1..Len(ents) : ents[i].kind = "TileMap"})

AnyEdited(cs) == \E i \in 1..Len(cs) : \E j \in 1..Len(cs[i].tiles) :
                     cs[i].tiles[j] # BlankTile

\* C2: on_start with two (or more) dense consoles bridges the first one (its
\* snapshot is in the resource slot and one tile map exists) and panics on
\* the assertion at the second; with exactly one dense console, and any
\* sparse consoles around it, on_start does not fail and bridges that one.
C2_SecondDenseBridgeFails ==
    [][(pc = "start" /\ pc' # "start") =>
          /\ (NumDense(consoles) >= 2 =>
                 /\ pc' = "panic"
                 /\ resource' = Some(SimpleConsoleResource(DenseConsoles(consoles)[1]))
                 /\ NumTileMaps(entities') = 1)
          /\ (NumDense(consoles) = 1 =>
                 /\ pc' = "frame"
                 /\ resource' = Some(SimpleConsoleResource(DenseConsoles(consoles)[1]))
                 /\ NumTileMaps(entities') = 1)]_vars

C2_Witness ==
    /\ pc = "panic"
    /\ NumDense(consoles) = 2
    /\ NumTileMaps(entities) = 1
    /\ resource # None

\* C3: whenever consoles have been bridged or published without a failure
\* (the state machine is between two frames), the session holds at most one
\* dense console.
C3_AtMostOneDenseBridged ==
    (pc = "frame") => NumDense(consoles) <= 1

\* C4: a tick that leaves quitting set ends the loop in that same update:
\* update returns Quit, the resource slot is not written in that frame, and
\* once the state machine has quit it stays quit (no further update, hence
\* no further tick).
C4_QuitIsTerminal ==
    /\ [][(pc = "tick" /\ quitting') => (pc' = "quit" /\ resource' = resource)]_vars
    /\ [][(pc = "quit") => (pc' = "quit" /\ consoles' = consoles)]_vars

C4_Witness ==
    /\ pc = "quit"
    /\ NumDense(consoles) = 1
    /\ resource # None
    /\ resource # Some(SimpleConsoleResource(DenseConsoles(consoles)[1]))

\* C5: an update that does not quit leaves in the resource slot the size and
\* the tiles of the session's dense console as the tick of that frame left
\* them; the slot holds a copy, which no step other than a publication
\* changes (in particular not a tick that edits the console and quits).
C5_SnapshotPublishedEachFrame ==
    /\ [][(pc = "tick" /\ pc' = "frame" /\ NumDense(consoles') = 1) =>
             resource' = Some(SimpleConsoleResource(DenseConsoles(consoles')[1]))]_vars
    /\ [][(pc # "start" /\ pc' # "frame") => resource' = resource]_vars

C5_Witness ==
    /\ pc = "frame"
    /\ NumDense(consoles) = 1
    /\ AnyEdited(consoles)
    /\ resource = Some(SimpleConsoleResource(DenseConsoles(consoles)[1]))

\* C8: in a frame whose accumulated key delay, this frame's time included, is
\* not above 50 ms the poll is skipped: the tick sees no key, no click and no
\* modifier, the pointer position of the previous frame, and the delay keeps
\* accumulating; in the other frames, and only in them, the poll runs and
\* the delay is reset to 0.
C8_SkippedPollLeavesInputCleared ==
    [][(pc = "frame" /\ pc' = "tick") =>
          LET kd == key_delay + frame_time_ms' IN
          /\ (kd <= 50 =>
                 /\ ~polled'
                 /\ key' = None /\ ~left_click'
                 /\ ~shift' /\ ~control' /\ ~alt'
                 /\ mouse_pos' = mouse_pos
                 /\ key_delay' = kd)
          /\ (kd > 50 => (polled' /\ key_delay' = 0))]_vars

C8_Witness ==
    /\ pc = "tick"
    /\ ~polled
    /\ key_delay > 0
    /\ mouse_pos # <<0, 0>>
    /\ key = None

\* C10: while the loop runs, the input poll is executed again and again.
C10_PollNeverStarved ==
    ([]<>(pc = "tick" /\ polled)) \/ <>(pc \in {"quit", "panic"})

\* ------------------------------------------------------------------------
\* Properties of init_raw
\* ------------------------------------------------------------------------
\* C1: a call that returns "No available monitor found" has created no
\* window (and no GL context) at any point.
C1_NoWindowWhenNoMonitor ==
    (last.fullscreen /\ last.result = "Err_NoMonitor") => ~last.window_created

\* (a - b) / 2 without wrap-around, rounded toward zero.
SignedHalf(a, b) == IF a >= b THEN (a - b) \div 2 ELSE -((b - a) \div 2)

\* C6: a call that reaches the centring step (not fullscreen, centered, the
\* window built) goes on past it without a panic; with a current monitor it
\* sets the position once, to ((monitor_w - window_w) / 2,
\* (monitor_h - window_h) / 2), whatever the two sizes are; without one it
\* does not set it.
C6_CenteredPositionNoUnderflow ==
    (last.win_size # None) =>
        /\ last.result \in {"Ok", "Err_fbo"}
        /\ IF last.monitor = None
           THEN last.position_sets = 0
           ELSE /\ last.position_sets = 1
                /\ last.position =
                      <<SignedHalf(last.monitor[1][1], last.win_size[1][1]),
                        SignedHalf(last.monitor[1][2], last.win_size[1][2])>>

ShaderNames(shs) == [i \in 1..Len(shs) |-> shs[i].vs]

BackendPopulated(be) ==
    /\ be.gl # None
    /\ be.quad_vao # None
    /\ be.context_wrapper # None
    /\ be.backing_buffer # None

\* C9: a call that does not return a session (an error from window/context
\* creation, from the fullscreen monitor check or from the framebuffer, or a
\* panic) leaves BACKEND and the shader registry as they were; they change
\* only in a call that returns a session, after which the back-end handles
\* are all present and the registry holds the six shaders in table order.
C9_BackendWrittenOnlyOnSuccess ==
    [][/\ (last'.result # "Ok" => (backend' = backend /\ shaders' = shaders))
       /\ ((backend' # backend \/ shaders' # shaders) => last'.result = "Ok")
       /\ (last'.result = "Ok" =>
              /\ BackendPopulated(backend')
              /\ ShaderNames(shaders') =
                    <<"CONSOLE_WITH_BG", "CONSOLE_NO_BG", "BACKING",
                      "SCANLINES", "FANCY_CONSOLE", "SPRITE_CONSOLE">>)]_vars

C9_Witness ==
    /\ last.result = "Err_fbo"
    /\ BackendPopulated(backend)
    /\ backend.resize_scaling
    /\ Len(shaders) = 6

====
